---------------------------- MODULE Spec2Model ----------------------------
(***************************************************************************)
(* Lab10/lab10.py: a Streamlit dashboard over the Gapminder table.  Every  *)
(* user interaction re-runs main() from the top: load_data (memoized by    *)
(* st.cache_data), the two widgets, the continent filter, the year filter, *)
(* the empty guard, the per-continent aggregation, the melt and the three  *)
(* charts.  A data frame is a sequence of row records in row order.        *)
(***************************************************************************)
EXTENDS Integers, Sequences, FiniteSets, TLC

(* Largest number of observations in the CSV file. *)
MaxRows == 3

(***************************************************************************)
(* The input file.  Rows are drawn from a small Gapminder-like table: a    *)
(* country fixes its continent, and (country, year) fixes the measures.    *)
(***************************************************************************)
DATA_PATH == "gapminder_full.csv"

Countries == {"Albania", "Algeria", "China", "India"}

ContinentOf ==
    [c \in Countries |->
        CASE c = "Albania" -> "Europe"
          [] c = "Algeria" -> "Africa"
          [] c = "China"   -> "Asia"
          [] c = "India"   -> "Asia"]

BasePopulation ==
    [c \in Countries |->
        CASE c = "Albania" -> 3
          [] c = "Algeria" -> 31
          [] c = "China"   -> 1280
          [] c = "India"   -> 1034]

BaseGdp ==
    [c \in Countries |->
        CASE c = "Albania" -> 46
          [] c = "Algeria" -> 53
          [] c = "China"   -> 31
          [] c = "India"   -> 17]

BaseLifeExp ==
    [c \in Countries |->
        CASE c = "Albania" -> 75
          [] c = "Algeria" -> 71
          [] c = "China"   -> 72
          [] c = "India"   -> 62]

Observation(c, y) ==
    [country    |-> c,
     continent  |-> ContinentOf[c],
     year       |-> y,
     population |-> BasePopulation[c] + (y - 2002),
     gdp_cap    |-> BaseGdp[c] + 2 * (y - 2002),
     life_exp   |-> BaseLifeExp[c] + (y - 2002) \div 5]

(* The (country, year) pairs that have an observation: a country need not  *)
(* be observed in every year.                                              *)
Observed ==
    {<<"Albania", 2002>>, <<"Albania", 2007>>, <<"Albania", 2012>>,
     <<"Algeria", 2007>>,
     <<"China", 2002>>, <<"China", 2007>>,
     <<"India", 2007>>, <<"India", 2012>>}

Observations == {Observation(k[1], k[2]) : k \in Observed}

CsvFiles == UNION {[1..n -> Observations] : n \in 1..MaxRows}

(***************************************************************************)
(* Python's ordering of the strings the program sorts: sorted() on the     *)
(* continent names, sort_values on the continent column.                   *)
(***************************************************************************)
StrRank(s) ==
    CASE s = "Africa"              -> 1
      [] s = "Asia"                -> 2
      [] s = "Europe"              -> 3
      [] s = "avg_gdp_per_capita"  -> 4
      [] s = "avg_life_expectancy" -> 5
      [] s = "total_population"    -> 6

StrLess(a, b) == StrRank(a) < StrRank(b)

IntLess(a, b) == a < b

(* Series.unique(): the distinct values of a column, by first appearance. *)
RECURSIVE Unique(_)
Unique(s) ==
    IF s = <<>> THEN <<>>
    ELSE LET init == Unique(SubSeq(s, 1, Len(s) - 1))
             last == s[Len(s)]
         IN  IF \E i \in DOMAIN init : init[i] = last THEN init
             ELSE Append(init, last)

Column(frame, col) == [i \in DOMAIN frame |-> frame[i][col]]

Range(s) == {s[i] : i \in DOMAIN s}

(* years = sorted(df["year"].unique()) *)
Years(df) == SortSeq(Unique(Column(df, "year")), IntLess)

(* continents = sorted(df["continent"].unique()) *)
Continents(df) == SortSeq(Unique(Column(df, "continent")), StrLess)


VARIABLES
    file,                \* contents of gapminder_full.csv
    cache,               \* st.cache_data memo of load_data: path -> frame
    reads,               \* number of pd.read_csv calls so far
    started,             \* main() has run at least once in this process
    years,               \* options of the year selectbox
    continents,          \* options of the continent multiselect
    selected_year,       \* value of the year selectbox
    selected_continents, \* value of the continent multiselect
    filtered_df,
    year_df,
    bar_metrics,
    melted_bar,
    ordered_continents,  \* categoryarray of the bar chart's x axis
    scatter_data,        \* frame handed to alt.Chart
    line_data,           \* frame handed to px.line
    warning,             \* st.warning was emitted in this run
    charts,              \* charts rendered in this run, in page order
    first,               \* history: selection and outputs of the first run
    touched              \* history: the user has changed a widget

vars == <<file, cache, reads, started, years, continents, selected_year,
          selected_continents, filtered_df, year_df, bar_metrics, melted_bar,
          ordered_continents, scatter_data, line_data, warning, charts, first,
          touched>>

(* selectbox default: 2007 if present, else the last option. *)
DEFAULT_YEAR == 2007

(***************************************************************************)
(* @st.cache_data load_data(csv_path): the first call for a path reads the *)
(* file and stores the frame; later calls return a copy of the stored      *)
(* frame.  The result carries the frame and the memo and read count after  *)
(* the call.                                                               *)
(***************************************************************************)
load_data_uncached(csv_path) ==
    [df |-> file, cache |-> (csv_path :> file), reads |-> reads + 1]

load_data(csv_path) ==
    IF csv_path \in DOMAIN cache
    THEN [df |-> cache[csv_path], cache |-> cache, reads |-> reads]
    ELSE [df |-> file, cache |-> (csv_path :> file), reads |-> reads + 1]

(* index=years.index(2007) if 2007 in years else len(years) - 1, 1-based. *)
DefaultYearIndex_last(ys) == Len(ys)

DefaultYearIndex(ys) ==
    IF \E i \in DOMAIN ys : ys[i] = DEFAULT_YEAR
    THEN CHOOSE i \in DOMAIN ys : ys[i] = DEFAULT_YEAR
    ELSE Len(ys)

(* if selected_continents: df[df["continent"].isin(...)].copy() else df.copy() *)
ContinentFilter_nofallback(df, selected) ==
    LET isin(r) == r.continent \in selected
    IN  SelectSeq(df, isin)

ContinentFilter_narrowing(df, selected) ==
    LET isin(r) == r.continent \in selected
    IN  IF selected # {}
        THEN SelectSeq(IF started THEN filtered_df ELSE df, isin)
        ELSE df

ContinentFilter(df, selected) ==
    LET isin(r) == r.continent \in selected
    IN  IF selected # {} THEN SelectSeq(df, isin) ELSE df

(* filtered_df[filtered_df["year"] == selected_year] *)
YearFilter(fdf, y) ==
    LET same(r) == r.year = y
    IN  SelectSeq(fdf, same)

(* year_df.empty *)
IsEmpty_never(frame) == FALSE

IsEmpty(frame) == Len(frame) = 0

(***************************************************************************)
(* Column aggregates.  A mean is the exact quotient sum / count, kept as a *)
(* fraction in lowest terms.                                               *)
(***************************************************************************)
RECURSIVE GCD(_, _)
GCD(a, b) == IF b = 0 THEN a ELSE GCD(b, a % b)

Frac(n, d) == LET g == GCD(n, d) IN [num |-> n \div g, den |-> d \div g]

RECURSIVE ColSum(_, _)
ColSum(frame, col) ==
    IF frame = <<>> THEN 0
    ELSE frame[1][col] + ColSum(Tail(frame), col)

ColMean(frame, col) == Frac(ColSum(frame, col), Len(frame))

Group(frame, key) ==
    LET member(r) == r.continent = key
    IN  SelectSeq(frame, member)

AggRow(key, g) ==
    [continent           |-> key,
     total_population    |-> ColSum(g, "population"),
     avg_gdp_per_capita  |-> ColMean(g, "gdp_cap"),
     avg_life_expectancy |-> ColMean(g, "life_exp")]

(***************************************************************************)
(* year_df.groupby("continent").agg(...).reset_index(): groupby sorts the  *)
(* group keys (sort=True is the default) and has one group per key that    *)
(* occurs in the frame.                                                    *)
(***************************************************************************)
BarMetrics_unsorted(ydf) ==
    LET ks == Unique(Column(ydf, "continent"))
    IN  [i \in DOMAIN ks |-> AggRow(ks[i], Group(ydf, ks[i]))]

BarMetrics_firstrow(ydf) ==
    LET ks == SortSeq(Unique(Column(ydf, "continent")), StrLess)
    IN  [i \in DOMAIN ks |->
            [AggRow(ks[i], Group(ydf, ks[i])) EXCEPT
                !.total_population = Group(ydf, ks[i])[1].population]]

BarMetrics_onegroup(ydf) ==
    IF ydf = <<>> THEN <<>> ELSE <<AggRow(ydf[1].continent, ydf)>>

BarMetrics(ydf) ==
    LET ks == SortSeq(Unique(Column(ydf, "continent")), StrLess)
    IN  [i \in DOMAIN ks |-> AggRow(ks[i], Group(ydf, ks[i]))]

(***************************************************************************)
(* bar_metrics.melt(id_vars="continent", ...): one block of rows per value *)
(* column, in the column order of bar_metrics, each block in frame order;  *)
(* the Value column is float, so the integer sums are widened.             *)
(***************************************************************************)
value_vars == <<"total_population", "avg_gdp_per_capita", "avg_life_expectancy">>

metric_order == <<"avg_gdp_per_capita", "total_population", "avg_life_expectancy">>

ToFloat(col, v) == IF col = "total_population" THEN Frac(v, 1) ELSE v

Melt(bm) ==
    LET n == Len(bm)
    IN  [k \in 1..(Len(value_vars) * n) |->
            LET col == value_vars[((k - 1) \div n) + 1]
                row == bm[((k - 1) % n) + 1]
            IN  [continent |-> row.continent,
                 Metric    |-> col,
                 Value     |-> ToFloat(col, row[col])]]

(* Code of a value in pd.Categorical(..., categories=metric_order). *)
CategoryCode(m) == CHOOSE i \in DOMAIN metric_order : metric_order[i] = m

(* Row order of sort_values(["continent", "Metric"]). *)
MeltedLess(a, b) ==
    \/ StrLess(a.continent, b.continent)
    \/ /\ a.continent = b.continent
       /\ CategoryCode(a.Metric) < CategoryCode(b.Metric)

PlainLess(a, b) ==
    \/ StrLess(a.continent, b.continent)
    \/ /\ a.continent = b.continent
       /\ StrLess(a.Metric, b.Metric)

MeltedBar_nocategorical(bm) == SortSeq(Melt(bm), PlainLess)

MeltedBar(bm) == SortSeq(Melt(bm), MeltedLess)

(* ordered_continents = bar_metrics["continent"].tolist() *)
OrderedContinents(bm) == Column(bm, "continent")

(* Data frames behind the scatter chart and the line chart. *)
ScatterData(fdf, ydf) == ydf

LineData_yearonly(fdf, ydf) == ydf

LineData(fdf, ydf) == fdf

Outputs ==
    [filtered_df |-> filtered_df, year_df |-> year_df,
     bar_metrics |-> bar_metrics, melted_bar |-> melted_bar,
     ordered_continents |-> ordered_continents,
     scatter_data |-> scatter_data, line_data |-> line_data,
     warning |-> warning, charts |-> charts]

(***************************************************************************)
(* One run of main().  On the first run of a session the widgets return    *)
(* their defaults; afterwards they return the values the user left them    *)
(* at, passed in as year_value and continents_value.  Run computes what    *)
(* the run produces; main stores it.                                       *)
(***************************************************************************)
Run(year_value, continents_value) ==
    LET ld  == load_data(DATA_PATH)
        df  == ld.df
        ys  == Years(df)
        cs  == Continents(df)
        sy  == IF started THEN year_value ELSE ys[DefaultYearIndex(ys)]
        sc  == IF started THEN continents_value ELSE Range(cs)
        fdf == ContinentFilter(df, sc)
        ydf == YearFilter(fdf, sy)
        bm  == BarMetrics(ydf)
    IN  [cache |-> ld.cache, reads |-> ld.reads,
         years |-> ys, continents |-> cs,
         selected_year |-> sy, selected_continents |-> sc,
         out |->
            IF IsEmpty(ydf)
            THEN [filtered_df |-> fdf, year_df |-> ydf,
                  bar_metrics |-> <<>>, melted_bar |-> <<>>,
                  ordered_continents |-> <<>>,
                  scatter_data |-> <<>>, line_data |-> <<>>,
                  warning |-> TRUE, charts |-> <<>>]
            ELSE [filtered_df |-> fdf, year_df |-> ydf,
                  bar_metrics |-> bm, melted_bar |-> MeltedBar(bm),
                  ordered_continents |-> OrderedContinents(bm),
                  scatter_data |-> ScatterData(fdf, ydf),
                  line_data |-> LineData(fdf, ydf),
                  warning |-> FALSE,
                  charts |-> <<"bar", "scatter", "line">>]]

main(year_value, continents_value) ==
    \E r \in {Run(year_value, continents_value)} :
        /\ cache' = r.cache
        /\ reads' = r.reads
        /\ started' = TRUE
        /\ years' = r.years
        /\ continents' = r.continents
        /\ selected_year' = r.selected_year
        /\ selected_continents' = r.selected_continents
        /\ filtered_df' = r.out.filtered_df
        /\ year_df' = r.out.year_df
        /\ bar_metrics' = r.out.bar_metrics
        /\ melted_bar' = r.out.melted_bar
        /\ ordered_continents' = r.out.ordered_continents
        /\ scatter_data' = r.out.scatter_data
        /\ line_data' = r.out.line_data
        /\ warning' = r.out.warning
        /\ charts' = r.out.charts
        /\ first' = IF started THEN first
                    ELSE <<[year |-> r.selected_year,
                            continents |-> r.selected_continents,
                            out |-> r.out]>>
        /\ UNCHANGED file

Init ==
    /\ file \in CsvFiles
    /\ cache = <<>>
    /\ reads = 0
    /\ started = FALSE
    /\ years = <<>>
    /\ continents = <<>>
    /\ selected_year = DEFAULT_YEAR
    /\ selected_continents = {}
    /\ filtered_df = <<>>
    /\ year_df = <<>>
    /\ bar_metrics = <<>>
    /\ melted_bar = <<>>
    /\ ordered_continents = <<>>
    /\ scatter_data = <<>>
    /\ line_data = <<>>
    /\ warning = FALSE
    /\ charts = <<>>
    /\ first = <<>>
    /\ touched = FALSE

(* A browser session opens the page: the script runs with widget defaults. *)
OpenSession ==
    /\ ~started
    /\ main(selected_year, selected_continents)
    /\ UNCHANGED touched

(* The user picks another option of the year selectbox. *)
ChangeYear ==
    /\ started
    /\ \E y \in Range(years) \ {selected_year} :
           main(y, selected_continents)
    /\ touched' = TRUE

(* The user changes the continent multiselect. *)
ChangeContinents ==
    /\ started
    /\ \E c \in (SUBSET Range(continents)) \ {selected_continents} :
           main(selected_year, c)
    /\ touched' = TRUE

(* The user reruns the script without touching a widget. *)
Rerun ==
    /\ started
    /\ main(selected_year, selected_continents)
    /\ UNCHANGED touched

Next == OpenSession \/ ChangeYear \/ ChangeContinents \/ Rerun

Spec == Init /\ [][Next]_vars

(***************************************************************************)
(* Vocabulary of the properties, stated over the file itself.              *)
(***************************************************************************)
YearSet == {file[i].year : i \in DOMAIN file}

ContinentSet == {file[i].continent : i \in DOMAIN file}

MaxOf(S) == CHOOSE x \in S : \A y \in S : y <= x

(* The continent set the selection stands for: empty means all. *)
EffectiveContinents ==
    IF selected_continents = {} THEN ContinentSet ELSE selected_continents

(* Rows of the file of continent c that match the current selection. *)
Matching(c) ==
    {i \in DOMAIN file :
        /\ file[i].year = selected_year
        /\ file[i].continent \in EffectiveContinents
        /\ file[i].continent = c}

RECURSIVE SumOver(_, _)
SumOver(I, col) ==
    IF I = {} THEN 0
    ELSE LET i == CHOOSE x \in I : TRUE
         IN  file[i][col] + SumOver(I \ {i}, col)

(* m is the mean of column col over the rows I. *)
IsMeanOver(m, I, col) ==
    /\ m.den > 0
    /\ m.num * Cardinality(I) = m.den * SumOver(I, col)

(* The k-th smallest element of a set of row numbers. *)
Kth(S, k) == CHOOSE i \in S : Cardinality({j \in S : j < i}) = k - 1

(* C1: a run with an empty continent selection produces the same           *)
(* continent-filtered rows, year rows, aggregate rows and empty-result     *)
(* signal as a run, for the same year, with every continent of the dataset *)
(* selected.                                                               *)
C1_EmptySelectionIsAll ==
    (started /\ selected_continents = {}) =>
        LET all == Run(selected_year, ContinentSet).out
        IN  /\ filtered_df = all.filtered_df
            /\ year_df = all.year_df
            /\ bar_metrics = all.bar_metrics
            /\ warning = all.warning

C1_Witness ==
    /\ started
    /\ selected_continents = {}
    /\ Len(bar_metrics) >= 2
    /\ Len(filtered_df) > Len(year_df)

(* C2: the total_population of every aggregate row is the sum of           *)
(* population over the observations of the selected year whose continent   *)
(* is selected (an empty selection standing for all continents) and is the *)
(* row's continent.                                                        *)
C2_TotalPopulationIsSum ==
    started =>
        \A k \in DOMAIN bar_metrics :
            bar_metrics[k].total_population =
                SumOver(Matching(bar_metrics[k].continent), "population")

C2_Witness ==
    /\ started
    /\ selected_continents # {}
    /\ selected_continents # ContinentSet
    /\ \E k \in DOMAIN bar_metrics :
           Cardinality(Matching(bar_metrics[k].continent)) >= 2

(* C3: when no observation matches the selected year and continents there *)
(* are no aggregate rows, the warning is emitted and none of the bar,      *)
(* scatter and line charts is rendered.                                    *)
C3_EmptyResult ==
    (started /\ \A c \in ContinentSet : Matching(c) = {}) =>
        /\ bar_metrics = <<>>
        /\ warning
        /\ charts = <<>>

C3_Witness ==
    /\ started
    /\ \A c \in ContinentSet : Matching(c) = {}
    /\ selected_year \in YearSet
    /\ warning

(* C4: running the pipeline again with the current selection reproduces    *)
(* the current outputs; and whenever the selection is again the one of the *)
(* first run, after any sequence of selection changes and reruns, every    *)
(* output equals the output of the first run.                              *)
C4_OutputsDependOnSelectionOnly ==
    started =>
        /\ Outputs = Run(selected_year, selected_continents).out
        /\ (/\ selected_year = first[1].year
            /\ selected_continents = first[1].continents) =>
               Outputs = first[1].out

C4_Witness ==
    /\ started
    /\ touched
    /\ selected_year = first[1].year
    /\ selected_continents = first[1].continents
    /\ Len(bar_metrics) >= 2
    /\ Len(year_df) < Len(filtered_df)

(* C5: when the year rows are not empty the aggregate table has exactly    *)
(* one row for each continent with a matching observation and none for any *)
(* other, and each row's sum and means are taken over that continent's     *)
(* matching observations.                                                  *)
C5_OneRowPerMatchingContinent ==
    (started /\ year_df # <<>>) =>
        LET present == {c \in ContinentSet : Matching(c) # {}}
        IN  /\ {bar_metrics[k].continent : k \in DOMAIN bar_metrics} = present
            /\ Len(bar_metrics) = Cardinality(present)
            /\ \A k \in DOMAIN bar_metrics :
                   LET I == Matching(bar_metrics[k].continent)
                   IN  /\ bar_metrics[k].total_population =
                              SumOver(I, "population")
                       /\ IsMeanOver(bar_metrics[k].avg_gdp_per_capita,
                                     I, "gdp_cap")
                       /\ IsMeanOver(bar_metrics[k].avg_life_expectancy,
                                     I, "life_exp")

C5_Witness ==
    /\ started
    /\ Cardinality(selected_continents) = 2
    /\ Cardinality(ContinentSet) = 3
    /\ Len(bar_metrics) = 2

(* C6: the selection of the first run is year 2007 if 2007 is a year of    *)
(* the dataset and the largest year otherwise, with every continent of the *)
(* dataset selected; the year options are the distinct years of the        *)
(* dataset and the selected year is always one of them.                    *)
C6_InitialSelection ==
    started =>
        /\ first[1].year =
               IF 2007 \in YearSet THEN 2007 ELSE MaxOf(YearSet)
        /\ first[1].continents = ContinentSet
        /\ Range(years) = YearSet
        /\ selected_year \in YearSet

C6_Witness ==
    /\ started
    /\ ~touched
    /\ 2007 \notin YearSet
    /\ Cardinality(YearSet) >= 2
    /\ selected_year = MaxOf(YearSet)
    /\ selected_continents = ContinentSet

(* C7 as stated: the aggregate rows are in order of first appearance of    *)
(* each continent in the year rows, and the bar chart's x axis follows the *)
(* aggregate order.                                                        *)
C7_FirstAppearanceOrder ==
    (started /\ ~warning) =>
        /\ Column(bar_metrics, "continent") =
               Unique(Column(year_df, "continent"))
        /\ ordered_continents = Column(bar_metrics, "continent")

(* C7 amended: the aggregate rows are in ascending order of continent      *)
(* name, and the bar chart's x axis follows the aggregate order.           *)
C7_SortedOrder ==
    (started /\ ~warning) =>
        /\ \A i, j \in DOMAIN bar_metrics :
               i < j => StrLess(bar_metrics[i].continent,
                                bar_metrics[j].continent)
        /\ ordered_continents = Column(bar_metrics, "continent")

C7_Witness ==
    /\ started
    /\ ~warning
    /\ Len(bar_metrics) >= 2
    /\ Column(bar_metrics, "continent") #
           Unique(Column(year_df, "continent"))

(* C8: the long form has exactly one row per (continent, metric) pair,     *)
(* three per aggregate row, each with the aggregate's value of the metric, *)
(* and within a continent the metrics come in the order                    *)
(* avg_gdp_per_capita, total_population, avg_life_expectancy.              *)
C8_LongForm ==
    (started /\ ~warning) =>
        /\ Len(melted_bar) = 3 * Len(bar_metrics)
        /\ \A k \in DOMAIN bar_metrics :
           \A m \in {"avg_gdp_per_capita", "total_population",
                     "avg_life_expectancy"} :
               LET hits == {i \in DOMAIN melted_bar :
                               /\ melted_bar[i].continent =
                                      bar_metrics[k].continent
                               /\ melted_bar[i].Metric = m}
               IN  /\ Cardinality(hits) = 1
                   /\ \A i \in hits :
                          melted_bar[i].Value =
                              IF m = "total_population"
                              THEN [num |-> bar_metrics[k].total_population,
                                    den |-> 1]
                              ELSE bar_metrics[k][m]
        /\ \A i \in DOMAIN melted_bar :
               melted_bar[i].Metric =
                   CASE i % 3 = 1 -> "avg_gdp_per_capita"
                     [] i % 3 = 2 -> "total_population"
                     [] i % 3 = 0 -> "avg_life_expectancy"
        /\ \A i, j \in DOMAIN melted_bar :
               ((i - 1) \div 3 = (j - 1) \div 3) =>
                   melted_bar[i].continent = melted_bar[j].continent

C8_Witness ==
    /\ started
    /\ ~warning
    /\ Len(melted_bar) >= 6

(* C9: the line chart's frame is the dataset restricted to the selected    *)
(* continents, all years included, in file order; and a run leaves the     *)
(* loaded dataset equal to the file.                                       *)
C9_FullHistoryUnmodified ==
    started =>
        LET keep == {i \in DOMAIN file :
                        file[i].continent \in EffectiveContinents}
        IN  /\ Len(filtered_df) = Cardinality(keep)
            /\ \A k \in DOMAIN filtered_df :
                   filtered_df[k] = file[Kth(keep, k)]
            /\ (charts # <<>>) => (line_data = filtered_df)
            /\ cache[DATA_PATH] = file

C9_Witness ==
    /\ started
    /\ charts # <<>>
    /\ selected_continents # {}
    /\ selected_continents # ContinentSet
    /\ \E k \in DOMAIN line_data : line_data[k].year # selected_year

(* C10: the file is read exactly once: not before the first run, once by   *)
(* the first run, and never again by a later run, which gets the memoized  *)
(* dataset, equal to the file.                                             *)
C10_FileReadOnce ==
    /\ ~started => (reads = 0 /\ DOMAIN cache = {})
    /\ started => (/\ reads = 1
                   /\ DOMAIN cache = {DATA_PATH}
                   /\ cache[DATA_PATH] = file)

C10_Witness ==
    /\ started
    /\ touched
    /\ reads = 1

=============================================================================
